---------------------------- MODULE Spec2Model ----------------------------
(***************************************************************************)
(* Model of bilibili-my-favorite: the durable task queue with its single   *)
(* executor worker (services/task_executor.py, services/task_manager.py,   *)
(* dao/task_dao.py) and the checkpointed sync engine                       *)
(* (services/optimized_sync_service.py, services/sync_context.py).         *)
(*                                                                         *)
(* The executor runs in its own thread with its own event loop; the        *)
(* control operations of TaskManager run in the request handlers of the    *)
(* main loop.  Both reach the tasks table through single SQL statements,   *)
(* so one statement is one atomic step and everything between two          *)
(* statements of one thread can interleave with the other thread.          *)
(***************************************************************************)
EXTENDS Integers, Sequences, FiniteSets, TLC

(***************************************************************************)
(* Bounds of the model.                                                    *)
(***************************************************************************)
\* number of tasks ever submitted
MaxTasks == 2
\* priorities a submitter may pick: 0..MaxPriority
MaxPriority == 1
\* retry_task is accepted while retry_count < max_retries + MaxManualRetries
MaxManualRetries == 1

\* collections the provider may list
MaxCollections == 2
\* pages of medias the provider holds per collection
MaxPages == 2
\* sync contexts constructed (fresh sync calls that got that far)
MaxRuns == 2
\* videos (bvids) the provider may show in a collection
MaxVideos == 2
\* readings of the clock: reconciliations in one behaviour
MaxClock == 3
\* process restarts in one behaviour
MaxRestarts == 1
\* executor threads alive at one time
MaxThreads == 2

(***************************************************************************)
(* Program constants.                                                      *)
(***************************************************************************)
\* BaseTask.max_retries default; no submit path sets another value
DefaultMaxRetries == 3
\* config.MAX_PAGES_PER_COLLECTION, the default of the setting
MAX_PAGES_PER_COLLECTION == 100

TaskIds == 1..MaxTasks

VARIABLES
    \* ---- task queue and executor
    tasks,            \* the tasks table: task_id -> row, rows present only
    submitted,        \* number of tasks submitted so far (ids and created_at)
    worker_pc,        \* position of the executor worker in _task_loop
    current_task,     \* the worker's in-memory task object, <<>> when None
    request,          \* a control operation between its read and its save
    handler_calls,    \* history: handler invocations per task id
    cancel_ok,        \* history: cancel_task returned True for the task id
    trace_calls,      \* whether handler_calls is recorded in this behaviour
    \* ---- sync engine
    lock_file,        \* sync_lock.json: <<>> when absent, else <<checkpoint>>
    page_cache,       \* page files of the data directory of cache_owner
    cache_owner,      \* task id of the newest data directory, 0 when none
    context,          \* OptimizedSyncService.context, <<>> when None
    sync_pc,          \* position of the sync run, "idle" when none runs
    frame,            \* local variables of the sync run
    runs,             \* number of SyncContext objects constructed
    outcome,          \* how the last sync call ended (failed_in_init: it
                      \* failed before it had a context of its own)
    lock_torn,        \* sync_lock.json exists but holds a truncated text
    returned,         \* the stats the last sync call returned, <<>> if none
    \* ---- catalog
    videos,           \* the videos table: bvid -> row, rows present only
    collection_videos,\* the collection_videos table: membership rows
    video_stats,      \* the video_stats table: rows <<bvid, recorded_at>>
    deletion_logs,    \* the deletion_logs table: rows <<collection, bvid, at>>
    recon_stats,      \* the stats of the context of the last reconciliation
    now,              \* the clock read by datetime.now()
    last_recon,       \* history: the arguments of the last reconciliation
    \* ---- callers of the sync service, handlers, restarts
    sync_bodies,      \* position of each caller inside sync_all_favorites
    handler_work,     \* the work of the running handler: <<>> or <<outcome>>
    rejected,         \* a control operation that is returning False
    restarts,         \* number of process restarts so far
    \* ---- configuration, requests to the sync service, executor threads
    max_pages,        \* config.MAX_PAGES_PER_COLLECTION of this deployment
    addressed,        \* history: the task id the last resume or cancel named
    executor          \* TaskExecutor: is_running, should_stop, its threads

task_vars == <<tasks, submitted, worker_pc, current_task, request,
               handler_calls, cancel_ok, trace_calls>>

sync_vars == <<lock_file, page_cache, cache_owner, context, sync_pc, frame,
               runs, outcome, lock_torn, returned>>

catalog_vars == <<videos, collection_videos, video_stats, deletion_logs,
                  recon_stats, now, last_recon>>

front_vars == <<sync_bodies, handler_work, rejected, restarts>>

aux_vars == <<max_pages, addressed, executor>>

vars == <<task_vars, sync_vars, catalog_vars, front_vars, aux_vars>>

history == <<handler_calls, cancel_ok, trace_calls>>

(***************************************************************************)
(* models/task_models.py                                                   *)
(***************************************************************************)
TaskStatus == {"pending", "running", "completed", "failed", "cancelled", "paused"}

BaseTask(id, prio, created) ==
    [task_id |-> id, status |-> "pending", retry_count |-> 0,
     max_retries |-> DefaultMaxRetries, priority |-> prio,
     created_at |-> created]

(***************************************************************************)
(* dao/task_dao.py                                                         *)
(***************************************************************************)
get_task_by_id(db, id) == IF id \in DOMAIN db THEN <<db[id]>> ELSE <<>>

\* UPDATE when the row exists (created_at is not in the SET list), INSERT
\* otherwise.
save_task(db, task) ==
    [t \in DOMAIN db \cup {task.task_id} |->
        IF t # task.task_id THEN db[t]
        ELSE IF t \in DOMAIN db
             THEN [task EXCEPT !.created_at = db[t].created_at]
             ELSE task]

delete_task(db, id) == [t \in DOMAIN db \ {id} |-> db[t]]

\* variant, used by no specification:
\* ORDER BY priority DESC, created_at DESC
OrderedBefore_NewestFirst(a, b) ==
    \/ a.priority > b.priority
    \/ a.priority = b.priority /\ a.created_at > b.created_at

\* ORDER BY priority DESC, created_at ASC
OrderedBefore(a, b) ==
    \/ a.priority > b.priority
    \/ a.priority = b.priority /\ a.created_at < b.created_at

RECURSIVE OrderRows(_)
OrderRows(rows) ==
    IF rows = {} THEN <<>>
    ELSE LET first == CHOOSE r \in rows :
                         \A o \in rows \ {r} : OrderedBefore(r, o)
         IN  <<first>> \o OrderRows(rows \ {first})

get_tasks_by_status(db, status, limit) ==
    LET all == OrderRows({db[t] : t \in {x \in DOMAIN db : db[x].status = status}})
    IN  IF Len(all) <= limit THEN all ELSE SubSeq(all, 1, limit)

(***************************************************************************)
(* services/task_manager.py                                                *)
(***************************************************************************)
\* submit_video_download / submit_sync_favorites / submit_batch_download
Submit(prio) ==
    /\ submitted < MaxTasks
    /\ submitted' = submitted + 1
    /\ tasks' = save_task(tasks, BaseTask(submitted + 1, prio, submitted + 1))
    /\ UNCHANGED <<worker_pc, current_task, request, history, sync_vars,
                   catalog_vars, front_vars, aux_vars>>

\* variant, used by no specification:
\* cancel_task also accepting a running task
ControlGuard_CancelRunning(op, task) ==
    CASE op = "cancel" -> task.status \in {"pending", "paused", "running"}
      [] op = "pause"  -> task.status = "pending"
      [] op = "resume" -> task.status = "paused"
      [] op = "retry"  -> task.status = "failed"

\* the status test of each control operation, on the task it has read
ControlGuard(op, task) ==
    CASE op = "cancel" -> task.status \in {"pending", "paused"}
      [] op = "pause"  -> task.status = "pending"
      [] op = "resume" -> task.status = "paused"
      [] op = "retry"  -> task.status = "failed"

\* the change each control operation makes to the task it has read
ControlApply(op, task) ==
    CASE op = "cancel" -> [task EXCEPT !.status = "cancelled"]
      [] op = "pause"  -> [task EXCEPT !.status = "paused"]
      [] op = "resume" -> [task EXCEPT !.status = "pending"]
      [] op = "retry"  -> [task EXCEPT !.status = "pending",
                                       !.retry_count = @ + 1]

ControlOps == {"cancel", "pause", "resume", "retry"}

\* first half of cancel_task / pause_task / resume_task / retry_task:
\* get_task_by_id and the status test.  A missing task or a failed test
\* returns False and changes nothing.
ControlRead(op, id) ==
    /\ request = <<>>
    /\ get_task_by_id(tasks, id) # <<>>
    /\ ControlGuard(op, tasks[id])
    /\ op = "retry" =>
           tasks[id].retry_count < tasks[id].max_retries + MaxManualRetries
    /\ request' = <<[op |-> op, task |-> tasks[id]]>>
    /\ UNCHANGED <<tasks, submitted, worker_pc, current_task, history,
                   sync_vars, catalog_vars, front_vars, aux_vars>>

\* second half: the change and save_task; the operation returns True
ControlSave ==
    /\ request # <<>>
    /\ LET op == request[1].op
           id == request[1].task.task_id
       IN  /\ tasks' = save_task(tasks, ControlApply(op, request[1].task))
           /\ cancel_ok' = IF op = "cancel"
                           THEN [cancel_ok EXCEPT ![id] = TRUE]
                           ELSE cancel_ok
    /\ request' = <<>>
    /\ UNCHANGED <<submitted, worker_pc, current_task, handler_calls,
                   trace_calls, sync_vars, catalog_vars, front_vars, aux_vars>>

\* cancel_task / pause_task / resume_task / retry_task on a missing task
\* or on a task whose status fails the test: nothing is written and the
\* operation is about to return False
ControlReject(op, id) ==
    /\ request = <<>>
    /\ rejected = <<>>
    /\ IF get_task_by_id(tasks, id) = <<>> THEN TRUE
       ELSE ~ControlGuard(op, tasks[id])
    /\ rejected' = <<[op |-> op, task_id |-> id]>>
    /\ UNCHANGED <<task_vars, sync_vars, catalog_vars, sync_bodies,
                   handler_work, restarts, aux_vars>>

\* return False
ControlReturnFalse ==
    /\ rejected # <<>>
    /\ rejected' = <<>>
    /\ UNCHANGED <<task_vars, sync_vars, catalog_vars, sync_bodies,
                   handler_work, restarts, aux_vars>>

DeleteTask(id) ==
    /\ id \in DOMAIN tasks
    /\ tasks' = delete_task(tasks, id)
    /\ UNCHANGED <<submitted, worker_pc, current_task, request, history,
                   sync_vars, catalog_vars, front_vars, aux_vars>>

(***************************************************************************)
(* services/task_executor.py                                               *)
(***************************************************************************)
\* variant, used by no specification:
\* the handler returned and the task is saved as it is, still RUNNING
OnHandlerReturn_KeepsRunning(task) == task

\* _execute_task, handler returned: COMPLETED
OnHandlerReturn(task) == [task EXCEPT !.status = "completed"]

\* variant, used by no specification:
\* the retry test with <= in place of <
OnHandlerException_OneMore(task) ==
    IF task.retry_count <= task.max_retries
    THEN [task EXCEPT !.status = "pending", !.retry_count = @ + 1]
    ELSE [task EXCEPT !.status = "failed"]

\* _execute_task, except branch: FAILED, or PENDING again with one more
\* retry counted while retry_count < max_retries
OnHandlerException(task) ==
    IF task.retry_count < task.max_retries
    THEN [task EXCEPT !.status = "pending", !.retry_count = @ + 1]
    ELSE [task EXCEPT !.status = "failed"]

\* _task_loop: get_tasks_by_status(PENDING, limit=1); with no pending task
\* the worker sleeps and polls again
WorkerPoll ==
    /\ worker_pc = "poll"
    /\ LET pending_tasks == get_tasks_by_status(tasks, "pending", 1)
       IN  /\ pending_tasks # <<>>
           /\ current_task' = <<pending_tasks[1]>>
    /\ worker_pc' = "execute"
    /\ UNCHANGED <<tasks, submitted, request, history, sync_vars,
                   catalog_vars, front_vars, aux_vars>>

\* _execute_task: status RUNNING saved, then the handler is invoked
WorkerStart ==
    /\ worker_pc = "execute"
    /\ LET task == [current_task[1] EXCEPT !.status = "running"]
       IN  /\ current_task' = <<task>>
           /\ tasks' = save_task(tasks, task)
           /\ handler_calls' = IF trace_calls
                                THEN [handler_calls EXCEPT ![task.task_id] = @ + 1]
                                ELSE handler_calls
    /\ worker_pc' = "handler"
    /\ UNCHANGED <<submitted, request, cancel_ok, trace_calls, sync_vars,
                   catalog_vars, front_vars, aux_vars>>

\* a handler reporting progress: save_task of the worker's task object
WorkerProgress ==
    /\ worker_pc = "handler"
    /\ tasks' = save_task(tasks, current_task[1])
    /\ UNCHANGED <<submitted, worker_pc, current_task, request, history,
                   sync_vars, catalog_vars, front_vars, aux_vars>>

WorkerHandlerReturns ==
    /\ worker_pc = "handler"
    /\ tasks' = save_task(tasks, OnHandlerReturn(current_task[1]))
    /\ current_task' = <<>>
    /\ worker_pc' = "poll"
    /\ UNCHANGED <<submitted, request, history, sync_vars, catalog_vars, front_vars,
                   aux_vars>>

WorkerHandlerRaises ==
    /\ worker_pc = "handler"
    /\ tasks' = save_task(tasks, OnHandlerException(current_task[1]))
    /\ current_task' = <<>>
    /\ worker_pc' = "poll"
    /\ UNCHANGED <<submitted, request, history, sync_vars, catalog_vars, front_vars,
                   aux_vars>>

Worker ==
    \/ WorkerPoll
    \/ WorkerStart
    \/ WorkerProgress
    \/ WorkerHandlerReturns
    \/ WorkerHandlerRaises

(***************************************************************************)
(* TaskExecutor.start and stop, and the threads they create.  A thread is  *)
(* at "poll" in the while loop of _task_loop, at "execute" and "handler"   *)
(* inside _execute_task with its own task object, "dead" before it was     *)
(* started and after its loop has ended.                                   *)
(***************************************************************************)
Threads == 1..MaxThreads

NoThread == [pc |-> "dead", task |-> <<>>]

\* TaskExecutor.__init__
NewExecutor ==
    [is_running |-> FALSE, should_stop |-> FALSE, executor_thread |-> 0,
     threads |-> [i \in Threads |-> NoThread]]

\* start(): returns when is_running; else should_stop.clear(), is_running
\* set and a new thread started, which becomes executor_thread
ExecutorStart ==
    /\ ~executor.is_running
    /\ \E i \in Threads : executor.threads[i].pc = "dead"
    /\ LET i == CHOOSE x \in Threads : executor.threads[x].pc = "dead"
       IN  executor' = [executor EXCEPT
                           !.should_stop = FALSE,
                           !.is_running = TRUE,
                           !.executor_thread = i,
                           !.threads[i] = [pc |-> "poll", task |-> <<>>]]
    /\ UNCHANGED <<task_vars, sync_vars, catalog_vars, front_vars,
                   max_pages, addressed>>

\* stop(): returns when not is_running; else should_stop.set(), is_running
\* cleared and executor_thread.join(timeout=10).  A thread that sleeps in
\* the loop (2 s, 5 s after an error) sees should_stop within the join and
\* ends; a thread inside a task that takes longer is still alive when the
\* join times out.
ExecutorStop ==
    /\ executor.is_running
    /\ LET i == executor.executor_thread
       IN  executor' = [executor EXCEPT
                           !.should_stop = TRUE,
                           !.is_running = FALSE,
                           !.threads[i] =
                               IF @.pc = "poll" THEN NoThread ELSE @]
    /\ UNCHANGED <<task_vars, sync_vars, catalog_vars, front_vars,
                   max_pages, addressed>>

\* _task_loop of thread i: should_stop is not set and a pending task is
\* found (without one the thread sleeps and stays at "poll")
ThreadPoll(i) ==
    /\ executor.threads[i].pc = "poll"
    /\ ~executor.should_stop
    /\ LET pending_tasks == get_tasks_by_status(tasks, "pending", 1)
       IN  /\ pending_tasks # <<>>
           /\ executor' = [executor EXCEPT
                              !.threads[i] = [pc |-> "execute",
                                              task |-> <<pending_tasks[1]>>]]
    /\ UNCHANGED <<task_vars, sync_vars, catalog_vars, front_vars,
                   max_pages, addressed>>

\* _task_loop of thread i: should_stop is set, the loop and the thread end
ThreadExit(i) ==
    /\ executor.threads[i].pc = "poll"
    /\ executor.should_stop
    /\ executor' = [executor EXCEPT !.threads[i] = NoThread]
    /\ UNCHANGED <<task_vars, sync_vars, catalog_vars, front_vars,
                   max_pages, addressed>>

\* _execute_task of thread i: status RUNNING saved, the handler invoked
ThreadStart(i) ==
    /\ executor.threads[i].pc = "execute"
    /\ LET task == [executor.threads[i].task[1] EXCEPT !.status = "running"]
       IN  /\ tasks' = save_task(tasks, task)
           /\ executor' = [executor EXCEPT
                              !.threads[i] = [pc |-> "handler",
                                              task |-> <<task>>]]
    /\ UNCHANGED <<submitted, worker_pc, current_task, request, history,
                   sync_vars, catalog_vars, front_vars, max_pages, addressed>>

\* the handler of thread i returned, or raised
ThreadFinishes(i, raised) ==
    /\ executor.threads[i].pc = "handler"
    /\ tasks' = save_task(tasks,
                          IF raised
                          THEN OnHandlerException(executor.threads[i].task[1])
                          ELSE OnHandlerReturn(executor.threads[i].task[1]))
    /\ executor' = [executor EXCEPT
                       !.threads[i] = [pc |-> "poll", task |-> <<>>]]
    /\ UNCHANGED <<submitted, worker_pc, current_task, request, history,
                   sync_vars, catalog_vars, front_vars, max_pages, addressed>>

(***************************************************************************)
(* services/sync_context.py                                                *)
(*                                                                         *)
(* A collection dict is modelled by its id; the lists of a context hold    *)
(* ids, failed_collections the id of each failed_info.  An argument that   *)
(* the code passes either as a dict or as a str carries its kind.  The     *)
(* field seeded is a history field: the collections the context was        *)
(* seeded with.  Of stats the model keeps two facts: counted, whether one   *)
(* of the counters is above zero, and errors, whether the list of error    *)
(* strings is non-empty.                                                   *)
(***************************************************************************)
Collections == 1..MaxCollections

Dict(c) == [kind |-> "dict", id |-> c]
Str(c) == [kind |-> "str", id |-> c]

SeqToSet(s) == {s[i] : i \in DOMAIN s}

Without(s, c) == SelectSeq(s, LAMBDA x : x # c)

RECURSIVE SetToSeq(_)
\* ascending order
SetToSeq(S) ==
    IF S = {} THEN <<>>
    ELSE LET m == CHOOSE x \in S : \A y \in S : x <= y
         IN  <<m>> \o SetToSeq(S \ {m})

SyncContext(id) ==
    [task_id |-> id, status |-> "initializing",
     collections_to_process |-> <<>>, fetched_collections |-> <<>>,
     current_collection |-> 0, current_page |-> 1,
     processed_collections |-> <<>>, downloaded_collections |-> <<>>,
     failed_collections |-> <<>>, seeded |-> {},
     stats |-> [counted |-> FALSE, errors |-> FALSE]]

update_status(ctx, status) == [ctx EXCEPT !.status = status]

set_current_collection(ctx, c, page) ==
    [ctx EXCEPT !.current_collection = c, !.current_page = page]

ClearCurrent(ctx, c) ==
    IF ctx.current_collection # 0 /\ ctx.current_collection = c
    THEN [ctx EXCEPT !.current_collection = 0, !.current_page = 1]
    ELSE ctx

\* variant, used by no specification:
\* the collection is appended to fetched_collections and stays in
\* collections_to_process
mark_collection_data_fetched_NoRemove(ctx, c) ==
    LET moved == IF c \in SeqToSet(ctx.collections_to_process)
                 THEN [ctx EXCEPT !.fetched_collections = Append(@, c)]
                 ELSE ctx
    IN  ClearCurrent(moved, c)

mark_collection_data_fetched(ctx, c) ==
    LET moved == IF c \in SeqToSet(ctx.collections_to_process)
                 THEN [ctx EXCEPT
                          !.collections_to_process = Without(@, c),
                          !.fetched_collections = Append(@, c)]
                 ELSE ctx
    IN  ClearCurrent(moved, c)

\* collection.get('id') raises AttributeError on a str
mark_collection_completed(ctx, collection) ==
    IF collection.kind # "dict"
    THEN [raised |-> TRUE, ctx |-> ctx]
    ELSE LET c == collection.id
             added == IF c \in SeqToSet(ctx.processed_collections)
                      THEN ctx
                      ELSE [ctx EXCEPT !.processed_collections = Append(@, c)]
         IN  [raised |-> FALSE,
              ctx |-> ClearCurrent(
                         [added EXCEPT !.fetched_collections = Without(@, c)],
                         c)]

\* never called by the service; part of the interface of SyncContext
mark_collection_downloaded(ctx, collection) ==
    IF collection.kind # "dict"
    THEN [raised |-> TRUE, ctx |-> ctx]
    ELSE LET c == collection.id
             added == IF c \in SeqToSet(ctx.downloaded_collections)
                      THEN ctx
                      ELSE [ctx EXCEPT !.downloaded_collections = Append(@, c)]
         IN  [raised |-> FALSE,
              ctx |-> ClearCurrent(
                         [added EXCEPT !.processed_collections = Without(@, c)],
                         c)]

\* variant, used by no specification:
\* the collection is removed from every list and not recorded as failed
mark_collection_failed_NoRecord(ctx, c) ==
    ClearCurrent(
        [ctx EXCEPT !.stats.errors = TRUE,
                    !.collections_to_process = Without(@, c),
                    !.fetched_collections = Without(@, c),
                    !.processed_collections = Without(@, c),
                    !.downloaded_collections = Without(@, c)],
        c)

mark_collection_failed(ctx, c) ==
    ClearCurrent(
        [ctx EXCEPT !.failed_collections = Append(@, c),
                    !.stats.errors = TRUE,
                    !.collections_to_process = Without(@, c),
                    !.fetched_collections = Without(@, c),
                    !.processed_collections = Without(@, c),
                    !.downloaded_collections = Without(@, c)],
        c)

is_resumable(ctx) ==
    /\ ctx.status \in {"fetching", "processing", "downloading"}
    /\ \/ ctx.collections_to_process # <<>>
       \/ ctx.fetched_collections # <<>>
       \/ ctx.processed_collections # <<>>
       \/ ctx.current_collection # 0

\* variant, used by no specification:
\* the cache is never consulted
load_collection_page_data_NoCache(cache, c, page) == "None"

\* a page file is absent, partial (opened for writing, json.dump not
\* finished) or complete; json.load fails on a partial file and the
\* exception handler returns None
load_collection_page_data(cache, c, page) ==
    IF <<c, page>> \in DOMAIN cache /\ cache[<<c, page>>] = "complete"
    THEN "data"
    ELSE "None"

\* get_collection_all_pages: the pages are probed from page on until the
\* first one load_collection_page_data has nothing for; the numbers of
\* the pages it returns
RECURSIVE get_collection_all_pages(_, _, _)
get_collection_all_pages(cache, c, page) ==
    IF load_collection_page_data(cache, c, page) = "None" THEN <<>>
    ELSE <<page>> \o get_collection_all_pages(cache, c, page + 1)

EmptyCache == [k \in Collections \X (1..MaxPages) |-> "absent"]

\* the collection directories of the data directory
CollectionDirs(cache) ==
    {c \in Collections : \E p \in 1..MaxPages : cache[<<c, p>>] # "absent"}

\* save_lock_file: the file holds the context as it is now
save_lock_file(ctx) ==
    /\ lock_file' = <<ctx>>
    /\ lock_torn' = FALSE

\* the values of SyncContext.status: the comment of __init__, and
\* cancelled from cancel_sync_task
SyncStatus ==
    {"initializing", "fetching", "processing", "downloading", "completed",
     "failed", "cancelled"}

(***************************************************************************)
(* The interface of SyncContext, called method by method on one object     *)
(* (the variable context), by any caller: every checkpoint that the        *)
(* methods can produce and save.                                           *)
(***************************************************************************)
\* context = SyncContext(); context.collections_to_process = [...]
CtxSeed(colls) ==
    /\ context # <<>>
    /\ context[1].seeded = {}
    /\ colls # {}
    /\ context' = <<[context[1] EXCEPT
                        !.collections_to_process = SetToSeq(colls),
                        !.seeded = colls]>>
    /\ UNCHANGED <<lock_file, lock_torn, page_cache, cache_owner, sync_pc,
                   frame, runs, outcome, returned, task_vars, catalog_vars, front_vars,
                   aux_vars>>

\* the save_lock_file that ends each of the methods below
CtxSaved(ctx) ==
    /\ context' = <<ctx>>
    /\ save_lock_file(ctx)
    /\ UNCHANGED <<page_cache, cache_owner, sync_pc, frame, runs, outcome,
                   returned, task_vars, catalog_vars, front_vars, aux_vars>>

CtxUpdateStatus(status) ==
    /\ context # <<>>
    /\ CtxSaved(update_status(context[1], status))

CtxSetCurrent(c) ==
    /\ context # <<>>
    /\ CtxSaved(set_current_collection(context[1], c, 1))

CtxFetched(c) ==
    /\ context # <<>>
    /\ CtxSaved(mark_collection_data_fetched(context[1], c))

CtxCompleted(c) ==
    /\ context # <<>>
    /\ CtxSaved(mark_collection_completed(context[1], Dict(c)).ctx)

CtxDownloaded(c) ==
    /\ context # <<>>
    /\ CtxSaved(mark_collection_downloaded(context[1], Dict(c)).ctx)

\* failed_collections grows with every call; the model stops at one entry
\* per collection
CtxFailed(c) ==
    /\ context # <<>>
    /\ Len(context[1].failed_collections) < MaxCollections
    /\ CtxSaved(mark_collection_failed(context[1], c))

(***************************************************************************)
(* services/optimized_sync_service.py                                      *)
(*                                                                         *)
(* One sync call runs at a time.  Each action is the code between two      *)
(* writes of the lock file or of a page file, or between a request to the  *)
(* provider and its answer, so that Crash can stop the run at every point  *)
(* where what is on disk differs.                                          *)
(***************************************************************************)
NoFrame ==
    [mode |-> "none", local |-> <<>>, queue |-> <<>>, coll |-> 0, page |-> 1,
     has_more |-> TRUE, in_try |-> FALSE, pending_more |-> FALSE,
     resumed |-> FALSE]

\* the stats dict of the else branch: zero counters and one error string
ErrorStats == [task_id |-> 0, counted |-> FALSE, errors |-> TRUE]

\* what a call returns: the stats of a context (task_id names the context
\* they were counted in)
StatsOf(ctx) ==
    [task_id |-> ctx.task_id, counted |-> ctx.stats.counted,
     errors |-> ctx.stats.errors]

\* the except branch of sync_all_favorites and of sync_single_collection,
\* held being self.context at that moment: with a context,
\* update_status("failed") keeps the lock file, then the error is appended
\* to the stats of that context and they are returned; without one the
\* zero stats with the error are returned
ExceptBranch(held, result) ==
    /\ IF held # <<>>
       THEN LET failed == update_status(held[1], "failed")
                after == [failed EXCEPT !.stats.errors = TRUE]
            IN  /\ save_lock_file(failed)
                /\ context' = <<after>>
                /\ returned' = <<StatsOf(after)>>
       ELSE /\ returned' = <<ErrorStats>>
            /\ UNCHANGED <<context, lock_file, lock_torn>>
    /\ sync_pc' = "idle"
    /\ frame' = NoFrame
    /\ outcome' = result

\* _process_single_collection_data.  The catalog work comes first: with
\* videos in the cached pages the counters of stats go up.  Then, on both
\* paths, mark_collection_completed(collection_id) is called with the id
\* string.  (The catalog work itself is the subject of Reconcile below.)
process_single_collection_data(ctx, cache, c) ==
    LET all_videos == load_collection_page_data(cache, c, 1)
        worked == IF all_videos = "None" THEN ctx
                  ELSE [ctx EXCEPT !.stats.counted = TRUE]
    IN  mark_collection_completed(worked, Str(c))

\* _process_all_data: every collection directory whose collection is still
\* in collections_to_process or is current_collection is processed; an
\* exception of one collection is appended to the errors and the loop
\* goes on
RECURSIVE process_all_data(_, _, _)
process_all_data(ctx, cache, dirs) ==
    IF dirs = <<>> THEN ctx
    ELSE LET c == Head(dirs)
             found == \/ c \in SeqToSet(ctx.collections_to_process)
                      \/ ctx.current_collection = c
             r == process_single_collection_data(ctx, cache, c)
             next == IF ~found THEN ctx
                     ELSE IF r.raised
                          THEN [r.ctx EXCEPT !.stats.errors = TRUE]
                          ELSE r.ctx
         IN  process_all_data(next, cache, Tail(dirs))

\* sync_all_favorites without resume_task_id, _initialize_sync_task up to
\* the request for the collection list: a new context, saved with status
\* initializing, not yet assigned to self.context
StartSyncAll ==
    /\ sync_pc = "idle"
    /\ runs < MaxRuns
    /\ LET local == update_status(SyncContext(runs + 1), "initializing")
       IN  /\ save_lock_file(local)
           /\ frame' = [NoFrame EXCEPT !.mode = "all", !.local = <<local>>]
    /\ runs' = runs + 1
    /\ cache_owner' = runs + 1
    /\ page_cache' = EmptyCache
    /\ sync_pc' = "init_list"
    /\ UNCHANGED <<context, outcome, returned, task_vars, catalog_vars, front_vars,
                   aux_vars>>

\* get_favorite_lists answered with a non-empty list
InitListReturns(colls) ==
    /\ sync_pc = "init_list"
    /\ colls # {}
    /\ LET seeded == [frame.local[1] EXCEPT
                         !.collections_to_process = SetToSeq(colls),
                         !.seeded = colls]
       IN  /\ save_lock_file(seeded)
           /\ context' = <<seeded>>
    /\ frame' = [frame EXCEPT !.local = <<>>]
    /\ sync_pc' = "dispatch"
    /\ UNCHANGED <<page_cache, cache_owner, runs, outcome, returned,
                   task_vars, catalog_vars, front_vars, aux_vars>>

\* get_favorite_lists raised, or answered with an empty list
InitListFails ==
    /\ sync_pc = "init_list"
    /\ ExceptBranch(context, "failed_in_init")
    /\ UNCHANGED <<page_cache, cache_owner, runs, task_vars, catalog_vars, front_vars,
                   aux_vars>>

\* sync_all_favorites, steps 2 and 3 on the status of the context;
\* _fetch_all_collections_data up to its first fetch
Dispatch ==
    /\ sync_pc = "dispatch"
    /\ IF context[1].status \in {"initializing", "fetching"}
       THEN LET ctx == update_status(context[1], "fetching")
            IN  /\ context' = <<ctx>>
                /\ save_lock_file(ctx)
                /\ IF ctx.current_collection # 0
                   THEN /\ frame' = [frame EXCEPT
                                        !.coll = ctx.current_collection,
                                        !.page = ctx.current_page,
                                        !.has_more = TRUE,
                                        !.in_try = FALSE]
                        /\ sync_pc' = "fetch_page"
                   ELSE /\ frame' = [frame EXCEPT
                                        !.queue = ctx.collections_to_process]
                        /\ sync_pc' = "fetch_next"
       ELSE /\ sync_pc' = IF context[1].status = "processing"
                          THEN "process_all" ELSE "finish"
            /\ UNCHANGED <<context, lock_file, lock_torn, frame>>
    /\ UNCHANGED <<page_cache, cache_owner, runs, outcome, returned,
                   task_vars, catalog_vars, front_vars, aux_vars>>

\* the loop over collections_copy: set_current_collection
FetchNext ==
    /\ sync_pc = "fetch_next"
    /\ frame.queue # <<>>
    /\ LET c == Head(frame.queue)
           ctx == set_current_collection(context[1], c, 1)
       IN  /\ context' = <<ctx>>
           /\ save_lock_file(ctx)
           /\ frame' = [frame EXCEPT !.queue = Tail(@), !.coll = c,
                                     !.page = 1, !.has_more = TRUE,
                                     !.in_try = TRUE]
    /\ sync_pc' = "fetch_page"
    /\ UNCHANGED <<page_cache, cache_owner, runs, outcome, returned,
                   task_vars, catalog_vars, front_vars, aux_vars>>

\* the loop is over: update_status("processing")
FetchAllDone ==
    /\ sync_pc = "fetch_next"
    /\ frame.queue = <<>>
    /\ LET ctx == update_status(context[1], "processing")
       IN  /\ context' = <<ctx>>
           /\ save_lock_file(ctx)
    /\ sync_pc' = "process_all"
    /\ UNCHANGED <<page_cache, cache_owner, frame, runs, outcome, returned,
                   task_vars, catalog_vars, front_vars, aux_vars>>

\* _fetch_single_collection_data: while has_more and page <= max_pages
LoopRuns == frame.has_more /\ frame.page <= max_pages

\* the page is cached: page += 1; continue
PageCached ==
    /\ sync_pc = "fetch_page"
    /\ LoopRuns
    /\ load_collection_page_data(page_cache, frame.coll, frame.page) # "None"
    /\ frame' = [frame EXCEPT !.page = @ + 1]
    /\ UNCHANGED <<lock_file, lock_torn, page_cache, cache_owner, context,
                   sync_pc, runs, outcome, returned, task_vars, catalog_vars, front_vars,
                   aux_vars>>

\* the page is not cached: the request to the provider is issued
PageRequested ==
    /\ sync_pc = "fetch_page"
    /\ LoopRuns
    /\ load_collection_page_data(page_cache, frame.coll, frame.page) = "None"
    /\ sync_pc' = "net_call"
    /\ UNCHANGED <<lock_file, lock_torn, page_cache, cache_owner, context,
                   frame, runs, outcome, returned, task_vars, catalog_vars, front_vars,
                   aux_vars>>

LoopEnds ==
    /\ sync_pc = "fetch_page"
    /\ ~LoopRuns
    /\ sync_pc' = "fetch_end"
    /\ UNCHANGED <<lock_file, lock_torn, page_cache, cache_owner, context,
                   frame, runs, outcome, returned, task_vars, catalog_vars, front_vars,
                   aux_vars>>

\* the provider answered without medias: break
NetEmpty ==
    /\ sync_pc = "net_call"
    /\ sync_pc' = "fetch_end"
    /\ UNCHANGED <<lock_file, lock_torn, page_cache, cache_owner, context,
                   frame, runs, outcome, returned, task_vars, catalog_vars, front_vars,
                   aux_vars>>

\* the provider answered with medias: save_collection_page_data opens the
\* page file for writing.  The provider holds at most MaxPages pages.
NetMedias(more) ==
    /\ sync_pc = "net_call"
    /\ frame.page <= MaxPages
    /\ page_cache' = [page_cache EXCEPT ![<<frame.coll, frame.page>>] = "partial"]
    /\ frame' = [frame EXCEPT !.pending_more = more]
    /\ sync_pc' = "write_page"
    /\ UNCHANGED <<lock_file, lock_torn, cache_owner, context, runs,
                   outcome, returned, task_vars, catalog_vars, front_vars,
                   aux_vars>>

\* json.dump finished, the page file is closed
PageWritten ==
    /\ sync_pc = "write_page"
    /\ page_cache' = [page_cache EXCEPT ![<<frame.coll, frame.page>>] = "complete"]
    /\ sync_pc' = "advance"
    /\ UNCHANGED <<lock_file, lock_torn, cache_owner, context, frame, runs,
                   outcome, returned, task_vars, catalog_vars, front_vars,
                   aux_vars>>

\* has_more, page += 1, current_page = page, save_lock_file
PageAdvance ==
    /\ sync_pc = "advance"
    /\ LET ctx == [context[1] EXCEPT !.current_page = frame.page + 1]
       IN  /\ context' = <<ctx>>
           /\ save_lock_file(ctx)
    /\ frame' = [frame EXCEPT !.page = @ + 1, !.has_more = frame.pending_more]
    /\ sync_pc' = "fetch_page"
    /\ UNCHANGED <<page_cache, cache_owner, runs, outcome, returned,
                   task_vars, catalog_vars, front_vars, aux_vars>>

\* the request raised.  Inside the loop over collections_copy the exception
\* is caught and the collection marked failed; the fetch of the resumed
\* current_collection and the fetch of sync_single_collection are outside
\* any try and end the run in the except branch.
NetRaises ==
    /\ sync_pc = "net_call"
    /\ IF frame.in_try
       THEN LET ctx == mark_collection_failed(context[1], frame.coll)
            IN  /\ context' = <<ctx>>
                /\ save_lock_file(ctx)
                /\ sync_pc' = "fetch_next"
                /\ UNCHANGED <<frame, outcome, returned>>
       ELSE ExceptBranch(context, "failed")
    /\ UNCHANGED <<page_cache, cache_owner, runs, task_vars, catalog_vars, front_vars,
                   aux_vars>>

\* _fetch_single_collection_data returned.  _fetch_all_collections_data
\* marks the collection fetched (for the resumed current_collection the
\* loop over the remaining collections starts then);
\* sync_single_collection goes on to update_status("processing").
FetchEnd ==
    /\ sync_pc = "fetch_end"
    /\ IF frame.mode = "single"
       THEN LET ctx == update_status(context[1], "processing")
            IN  /\ context' = <<ctx>>
                /\ save_lock_file(ctx)
                /\ sync_pc' = "process_single"
                /\ UNCHANGED frame
       ELSE LET ctx == mark_collection_data_fetched(context[1], frame.coll)
            IN  /\ context' = <<ctx>>
                /\ save_lock_file(ctx)
                /\ sync_pc' = "fetch_next"
                /\ frame' = IF frame.in_try THEN frame
                            ELSE [frame EXCEPT
                                     !.queue = ctx.collections_to_process]
    /\ UNCHANGED <<page_cache, cache_owner, runs, outcome, returned,
                   task_vars, catalog_vars, front_vars, aux_vars>>

\* _process_all_data
ProcessAll ==
    /\ sync_pc = "process_all"
    /\ context' = <<process_all_data(context[1], page_cache,
                                    SetToSeq(CollectionDirs(page_cache)))>>
    /\ sync_pc' = "finish"
    /\ UNCHANGED <<lock_file, lock_torn, page_cache, cache_owner, frame,
                   runs, outcome, returned, task_vars, catalog_vars, front_vars,
                   aux_vars>>

\* sync_single_collection: _process_single_collection_data; its exception
\* ends the run in the except branch
ProcessSingle ==
    /\ sync_pc = "process_single"
    /\ LET r == process_single_collection_data(context[1], page_cache,
                                               frame.coll)
       IN  IF r.raised
           THEN ExceptBranch(<<r.ctx>>, "failed")
           ELSE /\ context' = <<r.ctx>>
                /\ sync_pc' = "finish"
                /\ UNCHANGED <<lock_file, lock_torn, frame, outcome,
                               returned>>
    /\ UNCHANGED <<page_cache, cache_owner, runs, task_vars, catalog_vars, front_vars,
                   aux_vars>>

\* update_status("completed")
Complete ==
    /\ sync_pc = "finish"
    /\ LET ctx == update_status(context[1], "completed")
       IN  /\ context' = <<ctx>>
           /\ save_lock_file(ctx)
    /\ sync_pc' = "cleanup"
    /\ UNCHANGED <<page_cache, cache_owner, frame, runs, outcome, returned,
                   task_vars, catalog_vars, front_vars, aux_vars>>

\* context.cleanup(): the lock file is deleted, the data directory kept
Cleanup ==
    /\ sync_pc = "cleanup"
    /\ lock_file' = <<>>
    /\ lock_torn' = FALSE
    /\ sync_pc' = "idle"
    /\ frame' = NoFrame
    /\ outcome' = "completed"
    /\ returned' = <<StatsOf(context[1])>>
    /\ UNCHANGED <<page_cache, cache_owner, context, runs, task_vars,
                   catalog_vars, front_vars, aux_vars>>

\* sync_single_collection up to the request for the collection list
StartSyncSingle(fid) ==
    /\ sync_pc = "idle"
    /\ runs < MaxRuns
    /\ frame' = [NoFrame EXCEPT !.mode = "single", !.coll = fid]
    /\ sync_pc' = "single_list"
    /\ UNCHANGED <<lock_file, lock_torn, page_cache, cache_owner, context,
                   runs, outcome, returned, task_vars, catalog_vars, front_vars,
                   aux_vars>>

\* the collection is in the list: a new context with this one collection,
\* update_status("fetching")
SingleListReturns ==
    /\ sync_pc = "single_list"
    /\ LET ctx == update_status(
                     [SyncContext(runs + 1) EXCEPT
                         !.collections_to_process = <<frame.coll>>,
                         !.seeded = {frame.coll}],
                     "fetching")
       IN  /\ context' = <<ctx>>
           /\ save_lock_file(ctx)
    /\ runs' = runs + 1
    /\ cache_owner' = runs + 1
    /\ page_cache' = EmptyCache
    /\ sync_pc' = "fetch_page"
    /\ UNCHANGED <<frame, outcome, returned, task_vars, catalog_vars, front_vars,
                   aux_vars>>

\* get_favorite_lists raised, or the collection is not in the list
SingleListFails ==
    /\ sync_pc = "single_list"
    /\ ExceptBranch(context, "failed_in_init")
    /\ UNCHANGED <<page_cache, cache_owner, runs, task_vars, catalog_vars, front_vars,
                   aux_vars>>

\* resume_sync_task: sync_all_favorites(resume_task_id), _resume_sync_task.
\* Without a lock file, or with a checkpoint that is not resumable, it
\* raises ValueError into the except branch.
ResumeSync ==
    /\ sync_pc = "idle"
    /\ IF lock_file # <<>> /\ is_resumable(lock_file[1])
       THEN /\ context' = lock_file
            /\ frame' = [NoFrame EXCEPT !.mode = "all", !.resumed = TRUE]
            /\ sync_pc' = "dispatch"
            /\ UNCHANGED <<lock_file, lock_torn, outcome, returned>>
       ELSE ExceptBranch(context, "resume_rejected")
    /\ UNCHANGED <<page_cache, cache_owner, runs, task_vars, catalog_vars, front_vars,
                   aux_vars>>

\* cancel_sync_task: update_status("cancelled") and cleanup()
CancelSync ==
    /\ sync_pc = "idle"
    /\ lock_file # <<>>
    /\ lock_file' = <<>>
    /\ lock_torn' = FALSE
    /\ outcome' = "cancelled"
    /\ UNCHANGED <<page_cache, cache_owner, context, sync_pc, frame, runs,
                   returned, task_vars, catalog_vars, front_vars, aux_vars>>

\* resume_sync_task(task_id) called with any task id: _resume_sync_task
\* logs task_id and loads the one lock file find_existing_lock_file finds
ResumeSyncTask(task_id) ==
    /\ sync_pc = "idle"
    /\ addressed' = task_id
    /\ IF lock_file # <<>> /\ is_resumable(lock_file[1])
       THEN /\ context' = lock_file
            /\ frame' = [NoFrame EXCEPT !.mode = "all", !.resumed = TRUE]
            /\ sync_pc' = "dispatch"
            /\ UNCHANGED <<lock_file, lock_torn, outcome, returned>>
       ELSE ExceptBranch(context, "resume_rejected")
    /\ UNCHANGED <<page_cache, cache_owner, runs, task_vars, catalog_vars,
                   front_vars, max_pages, executor>>

\* cancel_sync_task(task_id) called with any task id: the lock file that
\* exists is loaded, marked cancelled and cleaned up, and True is returned;
\* without a lock file (or with one that does not load) False is returned
CancelSyncTask(task_id) ==
    /\ sync_pc = "idle"
    /\ addressed' = task_id
    /\ IF lock_file # <<>>
       THEN /\ lock_file' = <<>>
            /\ lock_torn' = FALSE
            /\ outcome' = "cancelled"
       ELSE /\ outcome' = "cancel_rejected"
            /\ UNCHANGED <<lock_file, lock_torn>>
    /\ UNCHANGED <<page_cache, cache_owner, context, sync_pc, frame, runs,
                   returned, task_vars, catalog_vars, front_vars, max_pages,
                   executor>>

\* the process is killed during a sync call: only the files remain
Crash ==
    /\ sync_pc # "idle"
    /\ context' = <<>>
    /\ frame' = NoFrame
    /\ sync_pc' = "idle"
    /\ outcome' = "killed"
    /\ returned' = <<>>
    /\ UNCHANGED <<lock_file, lock_torn, page_cache, cache_owner, runs,
                   task_vars, catalog_vars, front_vars, aux_vars>>

\* the steps of a run that write the lock file
SavesNext ==
    \/ sync_pc \in {"init_list", "single_list", "fetch_next", "net_call",
                     "advance", "fetch_end", "process_single", "finish"}
    \/ /\ sync_pc = "dispatch"
       /\ context[1].status \in {"initializing", "fetching"}

\* the process is killed inside save_lock_file, after open(path, 'w') has
\* truncated the file and before json.dump has written all of it: the
\* file exists and does not parse
KilledInSave ==
    /\ SavesNext
    /\ lock_file' = <<>>
    /\ lock_torn' = TRUE
    /\ context' = <<>>
    /\ frame' = NoFrame
    /\ sync_pc' = "idle"
    /\ outcome' = "killed"
    /\ returned' = <<>>
    /\ UNCHANGED <<page_cache, cache_owner, runs, task_vars, catalog_vars, front_vars,
                   aux_vars>>

\* the process ends between two sync calls (every CLI call is a process)
ProcessExit ==
    /\ sync_pc = "idle"
    /\ context # <<>>
    /\ context' = <<>>
    /\ UNCHANGED <<lock_file, lock_torn, page_cache, cache_owner, sync_pc,
                   frame, runs, outcome, returned, task_vars, catalog_vars, front_vars,
                   aux_vars>>

(***************************************************************************)
(* Reconciliation of one collection against the catalog                    *)
(* (_process_single_collection_data and the DAO calls it makes).           *)
(***************************************************************************)
Bvids == 1..MaxVideos

\* stands for the title literal compared at optimized_sync_service.py:442
InvalidTitle == "invalid video"

\* the fields of a fetched media the reconciliation reads
Items ==
    {[title |-> "video", attr |-> 0], [title |-> InvalidTitle, attr |-> 0],
     [title |-> "video", attr |-> 1], [title |-> "video", attr |-> 9]}

\* what get_collection_all_videos returns: the medias of the cached pages,
\* each video at most once
Snapshots == UNION {[S -> Items] : S \in SUBSET Bvids}

\* stats of a new SyncContext
NewStats ==
    [videos_added |-> 0, videos_updated |-> 0, videos_deleted |-> 0,
     videos_restored |-> 0, deleted_videos |-> {}, restored_videos |-> {},
     errors |-> 0]

\* the unavailability sentinel of a fetched media
is_deleted(item) == item.title = InvalidTitle \/ item.attr \in {1, 9}

\* INSERT INTO videos: deleted_at is NULL (0) when video_data has none
create_video(video_data, t) ==
    [is_deleted |-> video_data.is_deleted,
     deleted_at |-> IF "deleted_at" \in DOMAIN video_data
                    THEN video_data.deleted_at ELSE 0,
     updated_at |-> t]

\* UPDATE videos SET <the fields video_data has>, updated_at = now
update_video(row, video_data, t) ==
    [f \in DOMAIN row |->
        IF f \in DOMAIN video_data THEN video_data[f]
        ELSE IF f = "updated_at" THEN t
        ELSE row[f]]

\* a variant that stamps deleted_at again when the video stays unavailable
process_video_data_Restamp(vs, b, item, t) ==
    IF b \in DOMAIN vs
    THEN LET existing_video == vs[b]
             current_deleted == existing_video.is_deleted
             video_data ==
                 IF ~current_deleted /\ is_deleted(item)
                 THEN [is_deleted |-> TRUE, deleted_at |-> t]
                 ELSE IF current_deleted /\ ~is_deleted(item)
                 THEN [is_deleted |-> FALSE, deleted_at |-> 0]
                 ELSE IF is_deleted(item)
                 THEN [is_deleted |-> TRUE, deleted_at |-> t]
                 ELSE [is_deleted |-> FALSE]
         IN  update_video(existing_video, video_data, t)
    ELSE create_video(IF is_deleted(item)
                      THEN [is_deleted |-> TRUE, deleted_at |-> t]
                      ELSE [is_deleted |-> FALSE], t)

\* _process_video_data: the row of video b after the fetched item was
\* processed at time t; an existing video is always updated
process_video_data(vs, b, item, t) ==
    IF b \in DOMAIN vs
    THEN LET existing_video == vs[b]
             current_deleted == existing_video.is_deleted
             video_data ==
                 IF ~current_deleted /\ is_deleted(item)
                 THEN [is_deleted |-> TRUE, deleted_at |-> t]
                 ELSE IF current_deleted /\ ~is_deleted(item)
                 THEN [is_deleted |-> FALSE, deleted_at |-> 0]
                 ELSE IF is_deleted(item)
                 THEN [is_deleted |-> TRUE,
                       deleted_at |-> existing_video.deleted_at]
                 ELSE [is_deleted |-> FALSE]
         IN  update_video(existing_video, video_data, t)
    ELSE create_video(IF is_deleted(item)
                      THEN [is_deleted |-> TRUE, deleted_at |-> t]
                      ELSE [is_deleted |-> FALSE], t)

\* the membership row exists: last_seen is refreshed; else it is inserted
add_to_collection(cv, c, b, t) ==
    {r \in cv : ~(r.collection = c /\ r.bvid = b)}
        \cup {[collection |-> c, bvid |-> b, last_seen |-> t]}

\* a variant that leaves the membership row in place
remove_from_collection_KeepsRow(cv, c, b) ==
    cv

remove_from_collection(cv, c, b) ==
    {r \in cv : ~(r.collection = c /\ r.bvid = b)}

\* UPDATE videos SET is_deleted = 1, deleted_at = now, updated_at = now
mark_as_deleted(row, t) ==
    [row EXCEPT !.is_deleted = TRUE, !.deleted_at = t, !.updated_at = t]

\* _mark_video_deleted on the videos table: no look at other collections
mark_video_deleted(vs, b, t) ==
    IF b \in DOMAIN vs
    THEN [x \in DOMAIN vs |-> IF x = b THEN mark_as_deleted(vs[x], t)
                                        ELSE vs[x]]
    ELSE vs

\* videos that have a membership row of collection c
get_videos_by_collection(cv, c) ==
    {r.bvid : r \in {x \in cv : x.collection = c}}

\* the loop over all_videos (lines 408-416) on the two tables
RECURSIVE process_videos(_, _, _, _, _)
process_videos(cat, c, all_videos, todo, t) ==
    IF todo = {} THEN cat
    ELSE LET b == CHOOSE x \in todo : TRUE
             row == process_video_data(cat.videos, b, all_videos[b], t)
         IN  process_videos(
                 [videos |-> [x \in DOMAIN cat.videos \cup {b} |->
                                  IF x = b THEN row ELSE cat.videos[x]],
                  collection_videos |->
                      add_to_collection(cat.collection_videos, c, b, t)],
                 c, all_videos, todo \ {b}, t)

\* the loop over deleted_bvids (lines 420-428) on the two tables
RECURSIVE mark_videos_deleted(_, _, _, _)
mark_videos_deleted(cat, c, todo, t) ==
    IF todo = {} THEN cat
    ELSE LET b == CHOOSE x \in todo : TRUE
         IN  mark_videos_deleted(
                 [videos |-> mark_video_deleted(cat.videos, b, t),
                  collection_videos |->
                      IF b \in DOMAIN cat.videos
                      THEN remove_from_collection(cat.collection_videos, c, b)
                      ELSE cat.collection_videos],
                 c, todo \ {b}, t)

\* _process_single_collection_data for collection c, whose cached pages
\* hold all_videos; processing the items of raising raises before any
\* write.  The stats are those of the context of the run.
Reconcile(c, all_videos, raising) ==
    /\ now < MaxClock
    /\ raising \subseteq DOMAIN all_videos
    /\ now' = now + 1
    /\ last_recon' = <<[collection |-> c, snapshot |-> all_videos,
                        raising |-> raising]>>
    /\ IF DOMAIN all_videos = {}
       THEN /\ recon_stats' = <<NewStats>>
            /\ UNCHANGED <<videos, collection_videos, video_stats,
                           deletion_logs>>
       ELSE LET t == now + 1
                existing_bvids == get_videos_by_collection(collection_videos, c)
                api_bvids == DOMAIN all_videos \ raising
                processed ==
                    process_videos([videos |-> videos,
                                    collection_videos |-> collection_videos],
                                   c, all_videos, api_bvids, t)
                deleted_bvids == existing_bvids \ api_bvids
                found == deleted_bvids \cap DOMAIN processed.videos
                after == mark_videos_deleted(processed, c, deleted_bvids, t)
            IN  /\ videos' = after.videos
                /\ collection_videos' = after.collection_videos
                /\ video_stats' =
                       video_stats \cup {<<b, t>> : b \in api_bvids}
                /\ deletion_logs' =
                       deletion_logs \cup {<<c, b, t>> : b \in found}
                /\ recon_stats' =
                       <<[NewStats EXCEPT
                          !.videos_added =
                              Cardinality(api_bvids \ DOMAIN videos),
                          !.videos_updated =
                              Cardinality(api_bvids \cap DOMAIN videos),
                          !.videos_deleted = Cardinality(deleted_bvids),
                          !.deleted_videos =
                              {[bvid |-> x, collection |-> c] : x \in found},
                          !.errors = Cardinality(raising)]>>
    /\ UNCHANGED <<task_vars, sync_vars, front_vars, aux_vars>>

(***************************************************************************)
(* The callers of the sync service.  optimized_sync_service is one object  *)
(* of the process.  The executor calls sync_all_favorites in its thread    *)
(* from _handle_sync_task; the request handlers sync_collections and       *)
(* sync_single_collection (api/collections.py, app.py) call it inline in   *)
(* the main loop.  Each action below is the code of one caller between two *)
(* awaits; the fetch and process phases of a call are taken as one step    *)
(* each, on the context that self.context is at that moment.               *)
(***************************************************************************)
Callers == {"worker", "api"}

\* a caller outside the service
NoBody == [pc |-> "none", local |-> <<>>]

\* callers between the entry of sync_all_favorites and its return
InBody == {caller \in Callers : sync_bodies[caller].pc \in {"init", "fetch", "process"}}

\* _fetch_all_collections_data without a failure: every collection of
\* collections_copy is moved to fetched_collections
RECURSIVE fetch_all_collections_data(_, _)
fetch_all_collections_data(ctx, todo) ==
    IF todo = <<>> THEN ctx
    ELSE fetch_all_collections_data(
             mark_collection_data_fetched(
                 set_current_collection(ctx, Head(todo), 1), Head(todo)),
             Tail(todo))

\* the call enters sync_all_favorites: _initialize_sync_task constructs a
\* context, saves it and awaits the collection list.  The worker makes the
\* call from the handler of its running task, a request handler whenever a
\* request arrives.
BodyInit(caller) ==
    /\ sync_bodies[caller].pc = "none"
    /\ caller = "worker" => worker_pc = "handler"
    /\ runs < MaxRuns
    /\ LET local == update_status(SyncContext(runs + 1), "initializing")
       IN  /\ save_lock_file(local)
           /\ sync_bodies' = [sync_bodies EXCEPT
                                 ![caller] = [pc |-> "init",
                                              local |-> <<local>>]]
    /\ runs' = runs + 1
    /\ UNCHANGED <<page_cache, cache_owner, context, sync_pc, frame, outcome,
                   returned, task_vars, catalog_vars, handler_work, rejected,
                   restarts, aux_vars>>

\* the list arrived: the context is seeded, saved and assigned to
\* self.context; _fetch_all_collections_data sets the status fetching and
\* awaits the provider
BodyAssign(caller, colls) ==
    /\ sync_bodies[caller].pc = "init"
    /\ colls # {}
    /\ LET seeded == [sync_bodies[caller].local[1] EXCEPT
                         !.collections_to_process = SetToSeq(colls),
                         !.seeded = colls]
           ctx == update_status(seeded, "fetching")
       IN  /\ context' = <<ctx>>
           /\ save_lock_file(ctx)
    /\ sync_bodies' = [sync_bodies EXCEPT
                          ![caller] = [pc |-> "fetch", local |-> <<>>]]
    /\ UNCHANGED <<page_cache, cache_owner, sync_pc, frame, runs, outcome,
                   returned, task_vars, catalog_vars, handler_work, rejected,
                   restarts, aux_vars>>

\* the fetch phase of the call ends: self.context.update_status("processing")
BodyFetched(caller) ==
    /\ sync_bodies[caller].pc = "fetch"
    /\ LET ctx == update_status(
                      fetch_all_collections_data(
                          context[1], context[1].collections_to_process),
                      "processing")
       IN  /\ context' = <<ctx>>
           /\ save_lock_file(ctx)
    /\ sync_bodies' = [sync_bodies EXCEPT ![caller].pc = "process"]
    /\ UNCHANGED <<page_cache, cache_owner, sync_pc, frame, runs, outcome,
                   returned, task_vars, catalog_vars, handler_work, rejected,
                   restarts, aux_vars>>

\* the process phase ends: update_status("completed"), the stats are
\* copied, cleanup() deletes the lock file, the call returns
BodyCompleted(caller) ==
    /\ sync_bodies[caller].pc = "process"
    /\ LET ctx == update_status(
                      process_all_data(context[1], page_cache,
                                       SetToSeq(CollectionDirs(page_cache))),
                      "completed")
       IN  /\ context' = <<ctx>>
           /\ returned' = <<StatsOf(ctx)>>
    /\ lock_file' = <<>>
    /\ lock_torn' = FALSE
    /\ outcome' = "completed"
    /\ sync_bodies' = [sync_bodies EXCEPT
                          ![caller].pc = IF caller = "worker" THEN "done"
                                         ELSE "none"]
    /\ UNCHANGED <<page_cache, cache_owner, sync_pc, frame, runs, task_vars,
                   catalog_vars, handler_work, rejected, restarts, aux_vars>>

\* an await of the call raises (the collection list, or the fetch of a
\* resumed collection): the except branch, on self.context
BodyFails(caller) ==
    /\ sync_bodies[caller].pc \in {"init", "fetch"}
    /\ ExceptBranch(context, "failed")
    /\ sync_bodies' = [sync_bodies EXCEPT
                          ![caller] = [pc |-> IF caller = "worker"
                                              THEN "done" ELSE "none",
                                       local |-> <<>>]]
    /\ UNCHANGED <<page_cache, cache_owner, runs, task_vars, catalog_vars,
                   handler_work, rejected, restarts, aux_vars>>

\* _handle_sync_task got the stats and returns its TaskResult;
\* _execute_task saves COMPLETED
SyncHandlerReturns ==
    /\ worker_pc = "handler"
    /\ sync_bodies["worker"].pc = "done"
    /\ tasks' = save_task(tasks, OnHandlerReturn(current_task[1]))
    /\ current_task' = <<>>
    /\ worker_pc' = "poll"
    /\ sync_bodies' = [sync_bodies EXCEPT !["worker"] = NoBody]
    /\ UNCHANGED <<submitted, request, history, sync_vars, catalog_vars,
                   handler_work, rejected, restarts, aux_vars>>

(***************************************************************************)
(* sync_single_collection page by page, for callers that overlap.  Each    *)
(* action is the code of one caller between two awaits (the collection     *)
(* list, a page request, the delay after a page); it uses what             *)
(* self.context is at that moment.  page_cache is the data directory of    *)
(* the newest context, which is the one self.context refers to.            *)
(***************************************************************************)
\* the collection list arrived and holds the collection: a new context
\* with this one collection is assigned to self.context,
\* update_status("fetching"); _fetch_single_collection_data starts at
\* page 1
SingleBodyBegin(caller, fid) ==
    /\ sync_bodies[caller].pc = "none"
    /\ caller = "worker" => worker_pc = "handler"
    /\ runs < MaxRuns
    /\ LET ctx == update_status(
                     [SyncContext(runs + 1) EXCEPT
                         !.collections_to_process = <<fid>>,
                         !.seeded = {fid}],
                     "fetching")
       IN  /\ context' = <<ctx>>
           /\ save_lock_file(ctx)
    /\ runs' = runs + 1
    /\ cache_owner' = runs + 1
    /\ page_cache' = EmptyCache
    /\ sync_bodies' = [sync_bodies EXCEPT
                          ![caller] = [pc |-> "single_fetch",
                                       local |-> <<[coll |-> fid, page |-> 1,
                                                    has_more |-> TRUE]>>]]
    /\ UNCHANGED <<sync_pc, frame, outcome, returned, task_vars, catalog_vars,
                   handler_work, rejected, restarts, aux_vars>>

\* the head of the loop of _fetch_single_collection_data: a cached page is
\* skipped, a page that is not cached is requested; after the loop
\* sync_single_collection calls update_status("processing")
SingleBodyLoop(caller) ==
    /\ sync_bodies[caller].pc = "single_fetch"
    /\ LET l == sync_bodies[caller].local[1]
       IN  IF l.has_more /\ l.page <= max_pages
           THEN /\ sync_bodies' =
                      IF load_collection_page_data(page_cache, l.coll, l.page)
                             # "None"
                      THEN [sync_bodies EXCEPT
                               ![caller].local = <<[l EXCEPT !.page = @ + 1]>>]
                      ELSE [sync_bodies EXCEPT ![caller].pc = "single_net"]
                /\ UNCHANGED <<context, lock_file, lock_torn>>
           ELSE LET ctx == update_status(context[1], "processing")
                IN  /\ context' = <<ctx>>
                    /\ save_lock_file(ctx)
                    /\ sync_bodies' = [sync_bodies EXCEPT
                                          ![caller].pc = "single_process"]
    /\ UNCHANGED <<page_cache, cache_owner, sync_pc, frame, runs, outcome,
                   returned, task_vars, catalog_vars, handler_work, rejected,
                   restarts, aux_vars>>

\* the provider answered with medias: self.context.save_collection_page_data,
\* has_more, page += 1, self.context.current_page = page, save_lock_file.
\* The provider holds at most MaxPages pages.
SingleBodyAnswer(caller, more) ==
    /\ sync_bodies[caller].pc = "single_net"
    /\ LET l == sync_bodies[caller].local[1]
           ctx == [context[1] EXCEPT !.current_page = l.page + 1]
       IN  /\ l.page <= MaxPages
           /\ page_cache' = [page_cache EXCEPT ![<<l.coll, l.page>>] = "complete"]
           /\ context' = <<ctx>>
           /\ save_lock_file(ctx)
           /\ sync_bodies' = [sync_bodies EXCEPT
                                 ![caller] = [pc |-> "single_fetch",
                                              local |-> <<[l EXCEPT
                                                  !.page = @ + 1,
                                                  !.has_more = more]>>]]
    /\ UNCHANGED <<cache_owner, sync_pc, frame, runs, outcome, returned,
                   task_vars, catalog_vars, handler_work, rejected, restarts,
                   aux_vars>>

\* the provider answered without medias: break, then
\* update_status("processing")
SingleBodyEmpty(caller) ==
    /\ sync_bodies[caller].pc = "single_net"
    /\ LET ctx == update_status(context[1], "processing")
       IN  /\ context' = <<ctx>>
           /\ save_lock_file(ctx)
    /\ sync_bodies' = [sync_bodies EXCEPT ![caller].pc = "single_process"]
    /\ UNCHANGED <<page_cache, cache_owner, sync_pc, frame, runs, outcome,
                   returned, task_vars, catalog_vars, handler_work, rejected,
                   restarts, aux_vars>>

\* _process_single_collection_data, update_status("completed"), cleanup(),
\* return stats; an exception of the processing ends in the except branch
SingleBodyCompleted(caller) ==
    /\ sync_bodies[caller].pc = "single_process"
    /\ LET r == process_single_collection_data(
                    context[1], page_cache, sync_bodies[caller].local[1].coll)
       IN  IF r.raised
           THEN ExceptBranch(<<r.ctx>>, "failed")
           ELSE LET ctx == update_status(r.ctx, "completed")
                IN  /\ context' = <<ctx>>
                    /\ returned' = <<StatsOf(ctx)>>
                    /\ lock_file' = <<>>
                    /\ lock_torn' = FALSE
                    /\ outcome' = "completed"
                    /\ UNCHANGED <<sync_pc, frame>>
    /\ sync_bodies' = [sync_bodies EXCEPT
                          ![caller] = [pc |-> IF caller = "worker"
                                              THEN "done" ELSE "none",
                                       local |-> <<>>]]
    /\ UNCHANGED <<page_cache, cache_owner, runs, task_vars, catalog_vars,
                   handler_work, rejected, restarts, aux_vars>>

(***************************************************************************)
(* The task handlers (task_executor.py _register_handlers):                *)
(* execute_download_task, _handle_sync_task, _handle_batch_download_task.  *)
(***************************************************************************)
\* the task types that have a handler
HandledTypes == {"video_download", "sync_favorites", "batch_download"}

\* what the handler of a type does when its work has failed or not: every
\* handler wraps its work in try/except and returns a TaskResult.
\* sync_all_favorites returns stats also after a failure, so
\* _handle_sync_task reports success; _handle_batch_download_task records
\* the failure per video and reports success.
handler_result(type, failed) ==
    CASE type = "video_download" -> [raised |-> FALSE, success |-> ~failed]
      [] type = "sync_favorites" -> [raised |-> FALSE, success |-> TRUE]
      [] type = "batch_download" -> [raised |-> FALSE, success |-> TRUE]

\* result = await handler(task): the work of the handler is done
HandlerWork(type, failed) ==
    /\ worker_pc = "handler"
    /\ handler_work = <<>>
    /\ handler_work' = <<[type |-> type, failed |-> failed]>>
    /\ UNCHANGED <<task_vars, sync_vars, catalog_vars, sync_bodies, rejected,
                   restarts, aux_vars>>

\* the handler returned its TaskResult: _execute_task sets COMPLETED and
\* attaches the result, whatever its success flag
HandlerReturns ==
    /\ worker_pc = "handler"
    /\ handler_work # <<>>
    /\ ~handler_result(handler_work[1].type, handler_work[1].failed).raised
    /\ tasks' = save_task(tasks, OnHandlerReturn(current_task[1]))
    /\ current_task' = <<>>
    /\ worker_pc' = "poll"
    /\ handler_work' = <<>>
    /\ UNCHANGED <<submitted, request, history, sync_vars, catalog_vars,
                   sync_bodies, rejected, restarts, aux_vars>>

\* task_handlers.get(task.task_type) is None (export_data, import_data):
\* ValueError inside the try of _execute_task
HandlerMissing ==
    /\ worker_pc = "handler"
    /\ handler_work = <<>>
    /\ tasks' = save_task(tasks, OnHandlerException(current_task[1]))
    /\ current_task' = <<>>
    /\ worker_pc' = "poll"
    /\ UNCHANGED <<submitted, request, history, sync_vars, catalog_vars,
                   front_vars, aux_vars>>

(***************************************************************************)
(* Process termination and restart                                         *)
(***************************************************************************)
\* the process ends and is started again: the tasks table is what remains;
\* TaskManager.initialize starts a new executor thread, whose _task_loop
\* begins polling with no current task
ProcessRestart ==
    /\ restarts < MaxRestarts
    /\ restarts' = restarts + 1
    /\ worker_pc' = "poll"
    /\ current_task' = <<>>
    /\ request' = <<>>
    /\ rejected' = <<>>
    /\ handler_work' = <<>>
    /\ sync_bodies' = [caller \in Callers |-> NoBody]
    /\ UNCHANGED <<tasks, submitted, history, sync_vars, catalog_vars, aux_vars>>

(***************************************************************************)
(* Specifications                                                          *)
(***************************************************************************)
TaskInit ==
    /\ tasks = <<>>
    /\ submitted = 0
    /\ worker_pc = "poll"
    /\ current_task = <<>>
    /\ request = <<>>
    /\ handler_calls = [t \in TaskIds |-> 0]
    /\ cancel_ok = [t \in TaskIds |-> FALSE]

SyncInit ==
    /\ lock_file = <<>>
    /\ lock_torn = FALSE
    /\ page_cache = EmptyCache
    /\ cache_owner = 0
    /\ sync_pc = "idle"
    /\ frame = NoFrame
    /\ outcome = "none"
    /\ returned = <<>>

CatalogInit ==
    /\ videos = <<>>
    /\ collection_videos = {}
    /\ video_stats = {}
    /\ deletion_logs = {}
    /\ recon_stats = <<>>
    /\ now = 0
    /\ last_recon = <<>>

FrontInit ==
    /\ sync_bodies = [caller \in Callers |-> NoBody]
    /\ handler_work = <<>>
    /\ rejected = <<>>
    /\ restarts = 0

\* the configuration with its defaults, no request made yet, the executor
\* not started
AuxInit ==
    /\ max_pages = MAX_PAGES_PER_COLLECTION
    /\ addressed = 0
    /\ executor = NewExecutor

Init ==
    /\ TaskInit
    /\ trace_calls = FALSE
    /\ SyncInit
    /\ context = <<>>
    /\ runs = 0
    /\ CatalogInit
    /\ FrontInit
    /\ AuxInit

Next ==
    \/ \E prio \in 0..MaxPriority : Submit(prio)
    \/ \E op \in ControlOps, id \in TaskIds : ControlRead(op, id)
    \/ ControlSave
    \/ \E id \in TaskIds : DeleteTask(id)
    \/ Worker

\* submissions, control operations and the single worker
Spec == Init /\ [][Next]_vars

\* submissions and the single worker, no control operation; handler
\* invocations are counted
ExecInit ==
    /\ TaskInit
    /\ trace_calls = TRUE
    /\ SyncInit
    /\ context = <<>>
    /\ runs = 0
    /\ CatalogInit
    /\ FrontInit
    /\ AuxInit

ExecNext ==
    \/ \E prio \in 0..MaxPriority : Submit(prio)
    \/ Worker

ExecSpec == ExecInit /\ [][ExecNext]_vars

\* one SyncContext object and the calls of its methods
ContextInit ==
    /\ TaskInit
    /\ trace_calls = FALSE
    /\ SyncInit
    /\ context = <<SyncContext(1)>>
    /\ runs = 1
    /\ CatalogInit
    /\ FrontInit
    /\ AuxInit

ContextNext ==
    \/ \E colls \in SUBSET Collections : CtxSeed(colls)
    \/ \E status \in SyncStatus : CtxUpdateStatus(status)
    \/ \E c \in Collections : CtxSetCurrent(c)
    \/ \E c \in Collections : CtxFetched(c)
    \/ \E c \in Collections : CtxCompleted(c)
    \/ \E c \in Collections : CtxDownloaded(c)
    \/ \E c \in Collections : CtxFailed(c)

ContextSpec == ContextInit /\ [][ContextNext]_vars

\* reconciliations of collections against fetched snapshots, one after
\* the other, on a catalog that starts empty
ReconNext ==
    \E c \in Collections, all_videos \in Snapshots :
        \E raising \in SUBSET DOMAIN all_videos :
            Reconcile(c, all_videos, raising)

ReconSpec == Init /\ [][ReconNext]_vars

\* sync tasks run by the worker and sync requests served inline
EntryNext ==
    \/ \E prio \in 0..MaxPriority : Submit(prio)
    \/ WorkerPoll
    \/ WorkerStart
    \/ \E caller \in Callers : BodyInit(caller)
    \/ \E caller \in Callers, colls \in SUBSET Collections :
           BodyAssign(caller, colls)
    \/ \E caller \in Callers : BodyFetched(caller)
    \/ \E caller \in Callers : BodyCompleted(caller)
    \/ \E caller \in Callers : BodyFails(caller)
    \/ SyncHandlerReturns

EntrySpec == Init /\ [][EntryNext]_vars

\* the worker and the handlers of the three task types
HandlerNext ==
    \/ \E prio \in 0..MaxPriority : Submit(prio)
    \/ WorkerPoll
    \/ WorkerStart
    \/ \E type \in HandledTypes, failed \in BOOLEAN : HandlerWork(type, failed)
    \/ HandlerReturns
    \/ HandlerMissing

HandlerSpec == Init /\ [][HandlerNext]_vars

\* submissions, the single worker and control operations with their
\* refusals
ControlNext ==
    \/ \E prio \in 0..MaxPriority : Submit(prio)
    \/ \E op \in ControlOps, id \in TaskIds : ControlRead(op, id)
    \/ ControlSave
    \/ \E op \in ControlOps, id \in TaskIds : ControlReject(op, id)
    \/ ControlReturnFalse
    \/ Worker

ControlSpec == Init /\ [][ControlNext]_vars

\* submissions and the single worker, with process restarts.  The loop of
\* the executor thread keeps polling and every handler comes to an end.
RestartNext ==
    \/ \E prio \in 0..MaxPriority : Submit(prio)
    \/ Worker
    \/ ProcessRestart

RestartSpec ==
    /\ Init
    /\ [][RestartNext]_vars
    /\ WF_vars(WorkerPoll)
    /\ WF_vars(WorkerStart)
    /\ WF_vars(WorkerHandlerReturns \/ WorkerHandlerRaises)

\* single-collection syncs run by the worker and served inline, page by
\* page
SingleEntryNext ==
    \/ \E prio \in 0..MaxPriority : Submit(prio)
    \/ WorkerPoll
    \/ WorkerStart
    \/ \E caller \in Callers, fid \in Collections : SingleBodyBegin(caller, fid)
    \/ \E caller \in Callers : SingleBodyLoop(caller)
    \/ \E caller \in Callers, more \in BOOLEAN : SingleBodyAnswer(caller, more)
    \/ \E caller \in Callers : SingleBodyEmpty(caller)
    \/ \E caller \in Callers : SingleBodyCompleted(caller)
    \/ SyncHandlerReturns

SingleEntrySpec == Init /\ [][SingleEntryNext]_vars

\* a deployment whose MAX_PAGES_PER_COLLECTION setting is below the number
\* of pages the provider holds, or equal to it
BoundInit ==
    /\ TaskInit
    /\ trace_calls = FALSE
    /\ SyncInit
    /\ context = <<>>
    /\ runs = 0
    /\ CatalogInit
    /\ FrontInit
    /\ max_pages \in 1..MaxPages
    /\ addressed = 0
    /\ executor = NewExecutor

\* sync calls one after the other, with kills and process ends
SyncNext ==
    \/ StartSyncAll
    \/ \E colls \in SUBSET Collections : InitListReturns(colls)
    \/ InitListFails
    \/ Dispatch
    \/ FetchNext
    \/ FetchAllDone
    \/ PageCached
    \/ PageRequested
    \/ LoopEnds
    \/ NetEmpty
    \/ \E more \in BOOLEAN : NetMedias(more)
    \/ PageWritten
    \/ PageAdvance
    \/ NetRaises
    \/ FetchEnd
    \/ ProcessAll
    \/ ProcessSingle
    \/ Complete
    \/ Cleanup
    \/ \E fid \in Collections : StartSyncSingle(fid)
    \/ SingleListReturns
    \/ SingleListFails
    \/ ResumeSync
    \/ CancelSync
    \/ Crash
    \/ KilledInSave
    \/ ProcessExit

SyncSpec == Init /\ [][SyncNext]_vars

\* the sync calls, and resume and cancel requests that name a task id
AddressNext ==
    \/ SyncNext
    \/ \E task_id \in 1..MaxRuns : ResumeSyncTask(task_id)
    \/ \E task_id \in 1..MaxRuns : CancelSyncTask(task_id)

AddressSpec == Init /\ [][AddressNext]_vars

\* submissions, start() and stop() of the executor, and its threads
ExecutorNext ==
    \/ \E prio \in 0..MaxPriority : Submit(prio)
    \/ ExecutorStart
    \/ ExecutorStop
    \/ \E i \in Threads : ThreadPoll(i)
    \/ \E i \in Threads : ThreadExit(i)
    \/ \E i \in Threads : ThreadStart(i)
    \/ \E i \in Threads, raised \in BOOLEAN : ThreadFinishes(i, raised)

ExecutorSpec == Init /\ [][ExecutorNext]_vars

\* submissions, control operations and a worker that keeps running: the
\* loop of _task_loop goes on polling, a picked task is started, and the
\* handler of a started task terminates
LiveSpec ==
    /\ Init
    /\ [][Next]_vars
    /\ WF_vars(WorkerPoll)
    /\ WF_vars(WorkerStart)
    /\ WF_vars(WorkerHandlerReturns \/ WorkerHandlerRaises)

\* the same sync calls under a small page bound
BoundSpec == BoundInit /\ [][SyncNext]_vars

(***************************************************************************)
(* Properties                                                              *)
(***************************************************************************)

\* C1: with one executor worker, whatever the interleaving of submissions,
\* control operations, deletions and the worker's steps, at most one row of
\* the tasks table has status running.
C1_SingleRunner ==
    Cardinality({t \in DOMAIN tasks : tasks[t].status = "running"}) <= 1

\* one task is running, another is pending, and a control operation that
\* read the running task before it started is about to save
C1_Witness ==
    \E t, u \in DOMAIN tasks :
        /\ t # u
        /\ tasks[t].status = "running"
        /\ tasks[u].status = "pending"
        /\ request # <<>>
        /\ request[1].task.task_id = t

\* C2: without control operations, the handler of a task has been invoked
\* retry_count times when the task is pending and retry_count + 1 times
\* when it is running; a task is failed only after max_retries + 1
\* invocations, with retry_count = max_retries; and a failed task stays
\* failed with no further invocation.
C2_RetriedExactlyMaxRetries ==
    /\ [](\A t \in DOMAIN tasks :
            /\ tasks[t].status = "pending" =>
                   /\ handler_calls[t] = tasks[t].retry_count
                   /\ tasks[t].retry_count <= tasks[t].max_retries
            /\ tasks[t].status = "running" =>
                   handler_calls[t] = tasks[t].retry_count + 1
            /\ tasks[t].status = "failed" =>
                   /\ handler_calls[t] = tasks[t].max_retries + 1
                   /\ tasks[t].retry_count = tasks[t].max_retries)
    /\ [][\A t \in DOMAIN tasks :
            tasks[t].status = "failed" =>
                /\ t \in DOMAIN tasks'
                /\ tasks'[t].status = "failed"
                /\ handler_calls'[t] = handler_calls[t]
                /\ current_task' # <<>> => current_task'[1].task_id # t]_vars

\* a task has failed for good after max_retries + 1 invocations, and the
\* worker is polling again
C2_Witness ==
    \E t \in DOMAIN tasks :
        /\ tasks[t].status = "failed"
        /\ handler_calls[t] = DefaultMaxRetries + 1
        /\ worker_pc = "poll"
        /\ trace_calls

\* C3: retry_count never exceeds max_retries.
C3_RetryBound ==
    \A t \in DOMAIN tasks : tasks[t].retry_count <= tasks[t].max_retries

\* C4: every change of the status of a row is one of the legal transitions.
C4_LegalTransitions ==
    [][\A t \in DOMAIN tasks \cap DOMAIN tasks' :
          tasks'[t].status # tasks[t].status =>
              \/ <<tasks[t].status, tasks'[t].status>> \in
                     {<<"pending", "running">>, <<"running", "completed">>,
                      <<"running", "failed">>, <<"failed", "pending">>,
                      <<"pending", "paused">>, <<"paused", "pending">>,
                      <<"pending", "cancelled">>, <<"paused", "cancelled">>}
              \/ /\ tasks[t].status = "running"
                 /\ tasks'[t].status = "pending"
                 /\ tasks[t].retry_count < tasks[t].max_retries]_vars

\* C5: a row whose status is completed or cancelled keeps that status.
C5_TerminalImmutable ==
    [][\A t \in DOMAIN tasks \cap DOMAIN tasks' :
          tasks[t].status \in {"completed", "cancelled"} =>
              tasks'[t].status = tasks[t].status]_vars

\* C6: once cancel_task has returned True for a task, the worker never
\* invokes the handler of that task.
C6_NoRunAfterCancel ==
    [][\A t \in TaskIds :
          cancel_ok[t] =>
              ~(/\ worker_pc = "execute"
                /\ worker_pc' = "handler"
                /\ current_task[1].task_id = t)]_vars

C10_ResumeAfterFailure ==
    [][(/\ sync_pc = "idle"
        /\ lock_file # <<>>
        /\ lock_file[1].status = "failed"
        /\ ResumeSync) => sync_pc' = "dispatch"]_vars

\* C11: is_resumable is true exactly when the status is fetching,
\* processing or downloading and one of collections_to_process,
\* fetched_collections, processed_collections, downloaded_collections or
\* current_collection is non-empty.
C11_ResumableIff ==
    context # <<>> =>
        (is_resumable(context[1]) <=>
            /\ context[1].status \in {"fetching", "processing", "downloading"}
            /\ \/ context[1].collections_to_process # <<>>
               \/ context[1].fetched_collections # <<>>
               \/ context[1].processed_collections # <<>>
               \/ context[1].downloaded_collections # <<>>
               \/ context[1].current_collection # 0)

\* C12: when a full sync has saved status completed, fetched_collections is
\* empty and every collection the run was seeded with is in
\* processed_collections, downloaded_collections or failed_collections.
C12_FetchedAreProcessed ==
    (sync_pc = "cleanup" /\ frame.mode = "all") =>
        /\ context[1].fetched_collections = <<>>
        /\ context[1].seeded \subseteq
               SeqToSet(context[1].processed_collections)
                 \cup SeqToSet(context[1].downloaded_collections)
                 \cup SeqToSet(context[1].failed_collections)

\* C18: the lock file is absent or holds a completely written checkpoint,
\* whenever a run is stopped.
C18_AtomicSave == ~lock_torn

\* C19: in a full sync, fresh or resumed, a page request that raises has
\* its collection recorded in failed_collections and the run goes on with
\* the next collection.
C19_FetchFailureTolerated ==
    [][(/\ sync_pc = "net_call"
        /\ frame.mode = "all"
        /\ NetRaises) =>
           /\ sync_pc' = "fetch_next"
           /\ frame.coll \in SeqToSet(context'[1].failed_collections)]_vars

\* C20: a sync call that failed has returned stats with a non-empty list of
\* errors, and the counters it returned are those of that call: all zero
\* when the call failed before it had a context of its own.
C20_AlwaysReturnsStats ==
    (sync_pc = "idle" /\ outcome \in {"failed", "failed_in_init",
                                       "resume_rejected"}) =>
        /\ returned # <<>>
        /\ returned[1].errors
        /\ outcome = "failed_in_init" => ~returned[1].counted


\* C13: when a collection is reconciled a second time on the same snapshot,
\* right after the first time and without a processing error in either run,
\* no row of the catalog is created, updated or deleted and none of the
\* counters videos_added, videos_updated, videos_deleted, videos_restored
\* is raised.
C13_SecondRunNoMutation ==
    [][(/\ last_recon # <<>>
        /\ now' = now + 1
        /\ last_recon'[1].collection = last_recon[1].collection
        /\ last_recon'[1].snapshot = last_recon[1].snapshot
        /\ last_recon[1].raising = {}
        /\ last_recon'[1].raising = {})
       => /\ videos' = videos
          /\ collection_videos' = collection_videos
          /\ video_stats' = video_stats
          /\ deletion_logs' = deletion_logs
          /\ recon_stats'[1].videos_added = 0
          /\ recon_stats'[1].videos_updated = 0
          /\ recon_stats'[1].videos_deleted = 0
          /\ recon_stats'[1].videos_restored = 0]_vars

\* C14: every video that has a membership row of collection C and is absent
\* from the fresh fetch of C loses that row, counts once in videos_deleted
\* and gets one deleted-video record naming it and C (runs without a
\* processing error).
C14_AbsentIsRemoved ==
    [][(now' = now + 1 /\ last_recon'[1].raising = {}) =>
          LET c == last_recon'[1].collection
              gone == get_videos_by_collection(collection_videos, c)
                          \ DOMAIN last_recon'[1].snapshot
          IN  /\ \A b \in gone :
                    /\ b \notin get_videos_by_collection(collection_videos', c)
                    /\ [bvid |-> b, collection |-> c]
                           \in recon_stats'[1].deleted_videos
              /\ recon_stats'[1].videos_deleted = Cardinality(gone)
              /\ Cardinality(recon_stats'[1].deleted_videos)
                     = Cardinality(gone)]_vars

\* C15: a video removed from collection C because the fresh fetch of C
\* lacks it, which was available and still has a membership row of another
\* collection, keeps is_deleted = FALSE.
C15_SharedVideoStaysAvailable ==
    [][(now' = now + 1 /\ last_recon'[1].raising = {}) =>
          LET c == last_recon'[1].collection
              gone == get_videos_by_collection(collection_videos, c)
                          \ DOMAIN last_recon'[1].snapshot
          IN  \A b \in gone :
                  (/\ ~videos[b].is_deleted
                   /\ \E r \in collection_videos' :
                          r.bvid = b /\ r.collection # c)
                  => ~videos'[b].is_deleted]_vars

\* C16: for a stored video whose fetched item is processed: sentinel on an
\* available video sets is_deleted and stamps deleted_at with the time of
\* the run; no sentinel on an unavailable video clears is_deleted and
\* deleted_at; with no change of availability deleted_at keeps its value;
\* in all three cases the video has its membership row afterwards.
C16_SentinelTransitions ==
    [][(now' = now + 1) =>
          LET c == last_recon'[1].collection
              F == last_recon'[1].snapshot
          IN  \A b \in (DOMAIN F \ last_recon'[1].raising) \cap DOMAIN videos :
                  /\ (~videos[b].is_deleted /\ is_deleted(F[b]))
                         => /\ videos'[b].is_deleted
                            /\ videos'[b].deleted_at = now'
                  /\ (videos[b].is_deleted /\ ~is_deleted(F[b]))
                         => /\ ~videos'[b].is_deleted
                            /\ videos'[b].deleted_at = 0
                  /\ (videos[b].is_deleted = is_deleted(F[b]))
                         => /\ videos'[b].is_deleted = videos[b].is_deleted
                            /\ videos'[b].deleted_at = videos[b].deleted_at
                  /\ b \in get_videos_by_collection(collection_videos', c)]_vars

\* a video processed as available in a first run became unavailable by the
\* sentinel in a second run and is seen with the sentinel again: it is still
\* unavailable, with the stamp of the second run, and a member of the
\* collection
C16_Witness ==
    /\ last_recon # <<>>
    /\ \E b \in DOMAIN last_recon[1].snapshot \cap DOMAIN videos :
          /\ b \notin last_recon[1].raising
          /\ is_deleted(last_recon[1].snapshot[b])
          /\ videos[b].is_deleted
          /\ videos[b].deleted_at > 0
          /\ videos[b].deleted_at < now
          /\ videos[b].updated_at = now
          /\ <<b, videos[b].deleted_at>> \in video_stats
          /\ \E t0 \in 1..MaxClock :
                 t0 < videos[b].deleted_at /\ <<b, t0>> \in video_stats
          /\ b \in get_videos_by_collection(collection_videos,
                                            last_recon[1].collection)

\* C17: in a run without a processing error, videos_deleted counts every
\* stored video that the run turned from available to unavailable by the
\* sentinel (besides the videos removed from the collection), and
\* videos_restored and the restored-videos list count every stored video
\* that the run turned from unavailable to available.
C17_TransitionsCounted ==
    [][(now' = now + 1 /\ last_recon'[1].raising = {}) =>
          LET c == last_recon'[1].collection
              F == last_recon'[1].snapshot
              gone == IF DOMAIN F = {} THEN {}
                      ELSE get_videos_by_collection(collection_videos, c)
                               \ DOMAIN F
              went == {b \in DOMAIN F \cap DOMAIN videos :
                           ~videos[b].is_deleted /\ is_deleted(F[b])}
              back == {b \in DOMAIN F \cap DOMAIN videos :
                           videos[b].is_deleted /\ ~is_deleted(F[b])}
          IN  /\ recon_stats'[1].videos_deleted
                     = Cardinality(went) + Cardinality(gone)
              /\ recon_stats'[1].videos_restored = Cardinality(back)
              /\ Cardinality(recon_stats'[1].restored_videos)
                     = Cardinality(back)]_vars


\* C21: a caller that is inside a sync body (between the entry of
\* sync_all_favorites and its return) is the executor's worker running the
\* handler of its task, and no two callers are inside at the same time.
C21_OnlyWorkerRunsSync ==
    /\ \A caller \in InBody : caller = "worker" /\ worker_pc = "handler"
    /\ Cardinality(InBody) <= 1


\* C22: when the handler of a task ends after its work has failed, the task
\* is saved as failed, or as pending for a retry, and not as completed.
C22_FailedWorkNotCompleted ==
    [][(/\ handler_work # <<>>
        /\ handler_work[1].failed
        /\ handler_work' = <<>>)
       => tasks'[current_task[1].task_id].status \in {"failed", "pending"}]_vars


\* C23: the task the executor selects is pending at the selection, no other
\* pending task has a higher priority, and none of equal priority has an
\* earlier created_at; no save of a row changes its created_at, so a task
\* requeued by a retry keeps its place.
C23_PriorityThenOldest ==
    [][/\ (worker_pc = "poll" /\ worker_pc' = "execute") =>
              LET t == current_task'[1]
              IN  /\ t.task_id \in DOMAIN tasks
                  /\ tasks[t.task_id].status = "pending"
                  /\ \A o \in DOMAIN tasks \ {t.task_id} :
                         tasks[o].status = "pending" =>
                             /\ tasks[o].priority <= t.priority
                             /\ tasks[o].priority = t.priority =>
                                    tasks[o].created_at > t.created_at
       /\ \A id \in DOMAIN tasks \cap DOMAIN tasks' :
              tasks'[id].created_at = tasks[id].created_at]_vars

\* a task requeued after a failure is selected again ahead of a pending task
\* of the same priority that was submitted later
C23_Witness ==
    /\ worker_pc = "execute"
    /\ current_task[1].retry_count > 0
    /\ \E o \in DOMAIN tasks \ {current_task[1].task_id} :
           /\ tasks[o].status = "pending"
           /\ tasks[o].priority = current_task[1].priority
           /\ tasks[o].created_at > current_task[1].created_at


\* C24: a row of the tasks table comes into existence only by the
\* submission of a new task: once delete_task has removed the row of a task
\* id, no later save brings a row with that id back.
C24_DeletedStaysDeleted ==
    [][\A id \in TaskIds :
           (id \notin DOMAIN tasks /\ id \in DOMAIN tasks')
               => (submitted' = submitted + 1 /\ id = submitted')]_vars


\* C25: the checkpoint file is deleted only when a sync run reaches status
\* completed: a step after which the checkpoint that was on disk can no
\* longer be read from sync_lock.json is the cleanup of a run whose
\* context has status completed; after a failed, cancelled or interrupted
\* run the file is still there with the last saved checkpoint.
C25_DeletedOnlyWhenCompleted ==
    [][(lock_file # <<>> /\ lock_file' = <<>>)
          => /\ sync_pc = "cleanup"
             /\ context # <<>>
             /\ context[1].status = "completed"]_vars


\* C26: a control operation applied to a task outside its legal source
\* status is rejected and leaves the record unchanged: an operation goes
\* on to its change only when the task exists with a legal source status
\* (cancel: pending or paused, pause: pending, resume: paused, retry:
\* failed); otherwise, and for an unknown id, it returns False, and the
\* refusal writes nothing to the tasks table.
C26_IllegalSourceRejected ==
    [][LET LegalSource(op) ==
               CASE op = "cancel" -> {"pending", "paused"}
                 [] op = "pause"  -> {"pending"}
                 [] op = "resume" -> {"paused"}
                 [] op = "retry"  -> {"failed"}
       IN  /\ (request = <<>> /\ request' # <<>>)
                => LET id == request'[1].task.task_id
                   IN  /\ id \in DOMAIN tasks
                       /\ tasks[id].status \in LegalSource(request'[1].op)
           /\ (rejected = <<>> /\ rejected' # <<>>)
                => /\ tasks' = tasks
                   /\ request' = <<>>
           /\ \A op \in ControlOps, id \in TaskIds :
                (/\ request = <<>> /\ rejected = <<>>
                 /\ \/ id \notin DOMAIN tasks
                    \/ tasks[id].status \notin LegalSource(op))
                => /\ ENABLED ControlReject(op, id)
                   /\ ~ENABLED ControlRead(op, id)]_vars

\* a cancel_task on a running task is being refused, and so is an
\* operation on an id that no task has
C26_Witness ==
    /\ rejected # <<>>
    /\ rejected[1].op = "cancel"
    /\ rejected[1].task_id \in DOMAIN tasks
    /\ tasks[rejected[1].task_id].status = "running"
    /\ \E id \in TaskIds : id \notin DOMAIN tasks


\* C27: after pause_task has returned True for a task the executor does
\* not start it as long as resume_task has not been called on it: the
\* worker does not save RUNNING and invoke the handler for a task whose
\* row is paused (written by a pause_task that returned True, no write
\* since) while no resume_task on it is under way.
C27_PausedNotStarted ==
    [][(worker_pc = "execute" /\ worker_pc' = "handler")
          => LET id == current_task[1].task_id
             IN  ~ /\ id \in DOMAIN tasks
                   /\ tasks[id].status = "paused"
                   /\ ~ /\ request # <<>>
                        /\ request[1].op = "resume"
                        /\ request[1].task.task_id = id]_vars


\* C28: a task that had status running when the process terminated is not
\* lost after the restart: whenever a row has status running and the
\* worker is not executing that task, the executor later executes it
\* again or the row leaves status running.
C28_RunningNotLost ==
    \A id \in TaskIds :
        (/\ id \in DOMAIN tasks
         /\ tasks[id].status = "running"
         /\ ~(current_task # <<>> /\ current_task[1].task_id = id))
        ~> (\/ id \notin DOMAIN tasks
            \/ tasks[id].status # "running"
            \/ current_task # <<>> /\ current_task[1].task_id = id)


\* C29: whenever the checkpoint status is processing, collections_to_process
\* is empty, in the context of the run and in the lock file, for the full
\* sync and for the single-collection sync.
C29_ProcessingMeansNoneToFetch ==
    /\ (context # <<>> /\ context[1].status = "processing")
          => context[1].collections_to_process = <<>>
    /\ (lock_file # <<>> /\ lock_file[1].status = "processing")
          => lock_file[1].collections_to_process = <<>>


\* C30: at every instant, for every collection of a task, the page numbers
\* present in the page cache are a gap-free prefix 1..n, also after a
\* crash and a resume: no page file exists whose predecessor is missing,
\* and probing from page 1 until the first miss returns every page that
\* can be loaded.
C30_PagesGapFree ==
    \A c \in Collections :
        /\ \A p \in 2..MaxPages :
               page_cache[<<c, p>>] # "absent"
                   => page_cache[<<c, p - 1>>] # "absent"
        /\ SeqToSet(get_collection_all_pages(page_cache, c, 1))
              = {p \in 1..MaxPages :
                    load_collection_page_data(page_cache, c, p) # "None"}


\* C31: the fetch of one collection always terminates and the page bound
\* is a soft limit.  Inside the fetch the page number never passes
\* max_pages + 1 and every step of the loop lowers the measure
\* 4 * (max_pages + 1 - page) + (steps left in the iteration), so the
\* loop ends after at most max_pages iterations; it leaves the loop when
\* the provider returns no items, when has_more is false or when the page
\* number exceeds the bound; and when the fetch has ended by the bound,
\* the collection is moved to fetched_collections and not to
\* failed_collections.
C31_FetchTerminates ==
    [][LET Loop == {"fetch_page", "net_call", "write_page", "advance"}
           Rank(pc) == CASE pc = "fetch_page" -> 3
                         [] pc = "net_call" -> 2
                         [] pc = "write_page" -> 1
                         [] pc = "advance" -> 0
           Measure(pc, f) == 4 * (max_pages + 1 - f.page) + Rank(pc)
       IN  /\ sync_pc \in Loop => frame.page <= max_pages + 1
           /\ (sync_pc \in Loop /\ sync_pc' \in Loop)
                 => Measure(sync_pc', frame') < Measure(sync_pc, frame)
           /\ (sync_pc = "fetch_page" /\ sync_pc' = "fetch_end")
                 => ~frame.has_more \/ frame.page > max_pages
           /\ (/\ sync_pc = "fetch_end" /\ sync_pc' # "idle"
               /\ frame.has_more /\ frame.page > max_pages)
                 => /\ frame.coll \in SeqToSet(context'[1].fetched_collections)
                    /\ frame.coll
                          \notin SeqToSet(context'[1].failed_collections)]_vars


\* C33: when the fresh fetch of a collection is empty, every video that has
\* a membership row of that collection is treated as removed from it, as
\* for a non-empty fetch: no membership row of the collection is left and
\* each of the former members is counted in videos_deleted.
C33_EmptyFetchRemovesAll ==
    [][(now' = now + 1 /\ DOMAIN last_recon'[1].snapshot = {}) =>
          LET c == last_recon'[1].collection
              members == get_videos_by_collection(collection_videos, c)
          IN  /\ get_videos_by_collection(collection_videos', c) = {}
              /\ recon_stats'[1].videos_deleted = Cardinality(members)]_vars


\* C34: after a reconciliation of collection c against a non-empty fetch in
\* which no video raised, the videos that have a membership row of c are
\* exactly the videos of the fetch, whether available or sentinel-marked.
C34_MembershipEqualsFetch ==
    [][(/\ now' = now + 1
        /\ DOMAIN last_recon'[1].snapshot # {}
        /\ last_recon'[1].raising = {}) =>
          get_videos_by_collection(collection_videos',
                                   last_recon'[1].collection)
              = DOMAIN last_recon'[1].snapshot]_vars

\* an error-free reconciliation has just removed a former member and kept a
\* sentinel-marked video of the fetch as a member
C34_Witness ==
    /\ last_recon # <<>>
    /\ last_recon[1].raising = {}
    /\ \E b \in DOMAIN last_recon[1].snapshot :
          /\ is_deleted(last_recon[1].snapshot[b])
          /\ b \in get_videos_by_collection(collection_videos,
                                            last_recon[1].collection)
    /\ \E b \in Bvids \ DOMAIN last_recon[1].snapshot :
          <<last_recon[1].collection, b, now>> \in deletion_logs


\* C35: a video of the fetch whose processing raised is recorded as a
\* per-video error and skipped: it is not treated as removed, so a
\* membership row it had is kept, its videos row is not marked deleted and
\* no deletion is logged for it.
C35_RaisingVideoSkipped ==
    [][(now' = now + 1) =>
          LET c == last_recon'[1].collection
          IN  /\ recon_stats'[1].errors
                   = Cardinality(last_recon'[1].raising)
              /\ \A b \in last_recon'[1].raising :
                    /\ b \in get_videos_by_collection(collection_videos, c)
                          => b \in get_videos_by_collection(
                                       collection_videos', c)
                    /\ b \in DOMAIN videos => videos'[b] = videos[b]
                    /\ <<c, b, now'>> \notin deletion_logs']_vars


\* C36: whenever no sync run is executing and a checkpoint file exists, the
\* checkpoint is resumable; a run that stopped during initialization or
\* with status failed leaves no checkpoint that is not resumable.
C36_LeftoverIsResumable ==
    (sync_pc = "idle" /\ lock_file # <<>>) => is_resumable(lock_file[1])


\* C37: a resume or a cancel addressed to task id T acts only on a
\* checkpoint whose task_id is T; when no checkpoint is stored or the
\* stored one belongs to another task, the request is rejected and the
\* checkpoint is left as it was.
C37_OnlyAddressedCheckpoint ==
    [][\A T \in 1..MaxRuns :
          (/\ ResumeSyncTask(T) \/ CancelSyncTask(T)
           /\ lock_file = <<>> \/ lock_file[1].task_id # T)
             => /\ sync_pc' = "idle"
                /\ outcome' \in {"resume_rejected", "cancel_rejected"}
                /\ lock_file' = lock_file
                /\ lock_torn' = lock_torn]_vars


\* C38: the stats a sync call returns and the checkpoint it writes describe
\* that run only: a call that fails before it has a context of its own
\* (the collection list is not obtained, or the resume is rejected) returns
\* the zero stats with its error, without the task id or counts of an
\* earlier run, and writes no checkpoint.
C38_NoEarlierRunLeaks ==
    [][(\/ InitListFails
        \/ SingleListFails
        \/ ResumeSync /\ sync_pc' = "idle") =>
          /\ returned' = <<ErrorStats>>
          /\ lock_file' = lock_file
          /\ lock_torn' = lock_torn]_vars


\* C39: after any sequence of start() and stop() at most one worker loop
\* is polling or executing; in particular stop() followed by start() while
\* the previous worker executes a long task never gives two workers that
\* run tasks at the same time.
C39_OneWorkerLoop ==
    /\ Cardinality({i \in Threads : executor.threads[i].pc # "dead"}) <= 1
    /\ Cardinality({i \in Threads :
                       executor.threads[i].pc \in {"execute", "handler"}}) <= 1


\* C40: with finitely many submissions, handlers that terminate and a
\* worker that keeps running, every submitted task that is waiting or
\* running eventually reaches completed or failed, unless it is paused,
\* cancelled or deleted; a task that fails is retried a bounded number of
\* times and so cannot keep the tasks behind it waiting for ever.
C40_EveryTaskFinishes ==
    \A id \in TaskIds :
        (id \in DOMAIN tasks /\ tasks[id].status \in {"pending", "running"})
        ~> (\/ id \notin DOMAIN tasks
            \/ tasks[id].status \in {"completed", "failed",
                                      "paused", "cancelled"})

=============================================================================
